---- MODULE Spec2Model ----
(***************************************************************************)
(* Model of uploadbot.  The caption pipeline (src/video_creation.py):      *)
(* transcribe_chunks groups time-stamped words into subtitle cues,         *)
(* save_karaoke_ass turns every cue into a karaoke Dialogue line with      *)
(* format_ass_time for its times, and combine runs them before ffmpeg.     *)
(* The main loop run_bot_forever (src/main.py) with the stages it calls    *)
(* (src/audio_creation.py, src/clipping.py, src/upload_short.py), and the  *)
(* database lock of RedditStoryBot (src/redditbot.py).                     *)
(*                                                                         *)
(* Texts are sequences of one-character strings, so that len(), strip(),   *)
(* lower(), join() and split() are computed and not assumed.  Word times   *)
(* in the chunker are whole ticks, for which the float subtraction and     *)
(* comparison of the source are exact; the floats of save_karaoke_ass and  *)
(* format_ass_time are computed as IEEE 754 doubles.                       *)
(***************************************************************************)
EXTENDS Integers, Sequences, FiniteSets, TLC

VARIABLES
    \* transcribe_chunks: inputs
    segments,       \* the transcript: a sequence of segments, each a sequence of words
    max_words,      \* parameter max_words
    max_chars,      \* parameter max_chars
    max_pause,      \* parameter max_pause
    FILLER_WORDS,   \* module-level set of normalized filler words
    \* transcribe_chunks: locals
    subtitles,      \* the list returned
    index,          \* next cue index
    seg,            \* number of segments taken from the outer loop so far
    i,              \* number of words of the current segment taken by the inner loop
    buffer,         \* positions (in the current segment) of the buffered word objects
    start_time,     \* start of the first buffered word, or None
    pc,             \* "start", "words" (inside the inner loop), "done"
    \* history: one entry per retained word, in processing order
    log,
    \* save_karaoke_ass
    subs,           \* parameter subs: the cues to write
    f,              \* what has been written to the file, one entry per write
    sub_n,          \* number of cues taken by the loop so far
    ass_pc,         \* "open" (before the with), "loop", "closed"
    \* format_ass_time
    fmt_td,         \* parameter td
    fmt_ret,        \* the string returned, or None
    fmt_pc,         \* "call", "returned"
    \* run_bot_forever (main.py) and the stages it calls
    bot_pc,         \* the statement the main thread is at
    video_count,    \* local video_count
    generated_story,\* local generated_story: "unset", None or "story"
    attempted,      \* history: the stages called in this iteration of the loop
    done,           \* history: the stages that returned in this iteration
    uploads,        \* history: uploads completed in this process
    restart_failures, \* history: calls of schedule_restart_tomorrow that raised
    \* text_to_speech_file (audio_creation.py)
    failsafe_flag,  \* whether the file FAILSAFE_FLAG exists
    toggle_file,    \* content of the file TOGGLE_FILE, or None when missing
    voice_ret,      \* history: what the last call of get_next_voice_id returned
    voice_prev,     \* history: what the call before it returned
    tts_result,     \* history: how the last call of text_to_speech_file ended
    \* clip_video_based_on_audio (clipping.py)
    video_duration, \* local video_duration, 0 outside a call
    audio_duration, \* local audio_duration, 0 outside a call
    clip_start,     \* local start, or None
    clip_end,       \* local end, or None
    clip_exc,       \* history: the exception the last call raised, or None
    clip_file,      \* history: the window of the clip written in this iteration
    \* combine (video_creation.py)
    comb_log,       \* history: the steps of the last call, with their outcome
    comb_result,    \* history: "none", "running", "returned" or "raised"
    \* RedditStoryBot (redditbot.py): the shared connection and its lock
    db_lock,        \* who holds self.db_lock: a thread, or "free"
    th_prog,        \* per thread: what is left to do of the method it is in
    th_op           \* per thread: the database operation it is inside, or ""

chunkVars == <<segments, max_words, max_chars, max_pause, FILLER_WORDS,
               subtitles, index, seg, i, buffer, start_time, pc, log>>

assVars == <<subs, f, sub_n, ass_pc>>

fmtVars == <<fmt_td, fmt_ret, fmt_pc>>

botVars == <<bot_pc, video_count, generated_story, attempted, done, uploads,
             restart_failures>>

ttsVars == <<failsafe_flag, toggle_file, voice_ret, voice_prev, tts_result>>

clipVars == <<video_duration, audio_duration, clip_start, clip_end, clip_exc, clip_file>>

combVars == <<comb_log, comb_result>>

\* the state of the main loop and of the stages it calls
loopVars == <<botVars, ttsVars, clipVars, combVars>>

dbVars == <<db_lock, th_prog, th_op>>

\* the state of the functions modelled after save_karaoke_ass
extVars == <<fmtVars, loopVars, dbVars>>

vars == <<chunkVars, assVars, extVars>>

None == "None"

------------------------------------------------------------------------------
(* Bounds of the checked instances.                                         *)

MaxSegs == 2          \* segments per transcript
MaxTotalWords == 3    \* words per transcript, over all its segments
MaxWordsLimit == 2    \* max_words ranges over 1..MaxWordsLimit
PauseLimit == 1       \* max_pause; gaps between words are PauseLimit or PauseLimit + 1
WordDur == 1          \* end - start of every word, in ticks
MaxSubs == 2          \* cues given to save_karaoke_ass

------------------------------------------------------------------------------
(* Strings.                                                                 *)

SPACE == " "

\* str.isspace for one character
IsSpace(c) == c = SPACE \/ c = "\n"

\* str.lower for one character of the alphabet used
LowerChar(c) == IF c = "U" THEN "u" ELSE IF c = "A" THEN "a" ELSE c

lower(s) == [k \in 1..Len(s) |-> LowerChar(s[k])]

RECURSIVE lstrip(_)
lstrip(s) == IF s # <<>> /\ IsSpace(Head(s)) THEN lstrip(Tail(s)) ELSE s

RECURSIVE rstrip(_)
rstrip(s) ==
    IF s # <<>> /\ IsSpace(s[Len(s)]) THEN rstrip(SubSeq(s, 1, Len(s) - 1)) ELSE s

\* str.strip()
strip(s) == rstrip(lstrip(s))

\* sep.join(parts)
RECURSIVE join(_, _)
join(sep, parts) ==
    IF parts = <<>> THEN <<>>
    ELSE IF Len(parts) = 1 THEN parts[1]
    ELSE parts[1] \o sep \o join(sep, Tail(parts))

\* str.split(): the maximal runs of non-space characters
RECURSIVE split(_)
split(s) ==
    IF s = <<>> THEN <<>>
    ELSE IF IsSpace(Head(s)) THEN split(Tail(s))
    ELSE LET rest == split(Tail(s))
         IN  IF Len(s) > 1 /\ ~IsSpace(s[2])
             THEN <<(<<Head(s)>> \o Head(rest))>> \o Tail(rest)
             ELSE <<(<<Head(s)>>)>> \o rest

------------------------------------------------------------------------------
(* Inputs of transcribe_chunks.                                             *)

\* word.word as the transcriber may give it: a plain word, a word with a
\* leading space and a capital, and a word of white space only
Texts == { <<"a">>, <<" ", "U", "m">>, <<" ">> }

Gaps == { PauseLimit, PauseLimit + 1 }

WordSpec == [text : Texts, gap : Gaps]

\* start of the k-th word of a flat word list: gaps and durations add up
RECURSIVE StartOf(_, _)
StartOf(flat, k) ==
    IF k = 1 THEN flat[1].gap
    ELSE StartOf(flat, k - 1) + WordDur + flat[k].gap

\* the words (word, start, end) of a flat list
Timed(flat) ==
    [k \in 1..Len(flat) |->
        [word |-> flat[k].text, start |-> StartOf(flat, k),
         end |-> StartOf(flat, k) + WordDur]]

\* the k-th cut of a word list into MaxSegs consecutive segments
Monotone(cut, n) == \A a, b \in 1..n : a <= b => cut[a] <= cut[b]

RECURSIVE Pick(_, _, _, _)
Pick(ws, cut, s, k) ==
    IF k > Len(ws) THEN <<>>
    ELSE IF cut[k] = s THEN <<ws[k]>> \o Pick(ws, cut, s, k + 1)
    ELSE Pick(ws, cut, s, k + 1)

\* word lists of n words; the first word starts at PauseLimit
Flats(n) == { fl \in [1..n -> WordSpec] : n > 0 => fl[1].gap = PauseLimit }

Transcripts ==
    UNION { { [s \in 1..MaxSegs |-> Pick(Timed(flat), cut, s, 1)] :
                cut \in { g \in [1..n -> 1..MaxSegs] : Monotone(g, n) },
                flat \in Flats(n) } :
            n \in 0..MaxTotalWords }

FillerSets == { {}, { <<"u", "m">> } }

MaxCharsSet == { 2, 6 }

------------------------------------------------------------------------------
(* transcribe_chunks.                                                       *)

Subtitle(idx, st, en, text) ==
    [index |-> idx, start |-> st, end |-> en, content |-> text]

ChunkInit ==
    /\ segments \in Transcripts
    /\ max_words \in 1..MaxWordsLimit
    /\ max_chars \in MaxCharsSet
    /\ max_pause = PauseLimit
    /\ FILLER_WORDS \in FillerSets
    /\ subtitles = <<>>
    /\ index = 1
    /\ seg = 0
    /\ i = 0
    /\ buffer = <<>>
    /\ start_time = None
    /\ pc = "start"
    /\ log = <<>>

words == segments[seg]

\* word.word.strip().lower()
word_text(word) == lower(strip(word.word))

\* " ".join([w.word for w in buffer])
buffer_text(buf) == join(<<SPACE>>, [k \in 1..Len(buf) |-> words[buf[k]].word])

\* next_word = words[i + 1] if i + 1 < len(words) else None
has_next(k) == k + 1 <= Len(words)

\* mutant: the length is taken before the word is appended
char_limit_before(buf) ==
    Len(buffer_text(SubSeq(buf, 1, Len(buf) - 1))) >= max_chars

\* char_limit = len(buffer_text) >= max_chars
char_limit(buf) == Len(buffer_text(buf)) >= max_chars

\* mutant: > for >=
word_limit_gt(buf) == Len(buf) > max_words

\* word_limit = len(buffer) >= max_words
word_limit(buf) == Len(buf) >= max_words

\* time_gap = next_word and (next_word.start - word.end) > max_pause
time_gap(k) == has_next(k) /\ (words[k + 1].start - words[k].end) > max_pause

\* end_of_segment = next_word is None
end_of_segment(k) == ~has_next(k)

\* if word_limit or char_limit or time_gap or end_of_segment
should_flush(buf, k) ==
    word_limit(buf) \/ char_limit(buf) \/ time_gap(k) \/ end_of_segment(k)

\* mutant: the start is taken from every word, not from the first only
first_start_every(k) == words[k].start

\* if not buffer: start_time = word.start
first_start(k) == IF buffer = <<>> THEN words[k].start ELSE start_time

\* end_time = buffer[-1].end
end_time(buf) == words[buf[Len(buf)]].end

\* text = " ".join([w.word for w in buffer]).strip()
cue_text(buf) == strip(buffer_text(buf))

\* mutant: the counter also advances when the text is empty
next_index_always(text) == index + 1

\* index += 1, inside "if text:"
next_index(text) == IF text # <<>> THEN index + 1 ELSE index

\* if word_text in FILLER_WORDS
is_filler(word) == word_text(word) \in FILLER_WORDS

\* the inner loop has taken every word of the current segment
inner_loop_over == pc = "words" /\ i >= Len(words)

\* control is at the head of the outer loop
at_outer_loop == pc = "start" \/ inner_loop_over

\* for segment in segments: words = segment.words; buffer = []; start_time = None
NextSegment ==
    /\ at_outer_loop
    /\ seg < Len(segments)
    /\ seg' = seg + 1
    /\ i' = 0
    /\ buffer' = <<>>
    /\ start_time' = None
    /\ pc' = "words"
    /\ UNCHANGED <<assVars, extVars, segments, max_words, max_chars, max_pause, FILLER_WORDS,
                   subtitles, index, log>>

\* if word_text in FILLER_WORDS: continue
SkipFiller ==
    /\ pc = "words"
    /\ i < Len(words)
    /\ is_filler(words[i + 1])
    /\ i' = i + 1
    /\ UNCHANGED <<assVars, extVars, segments, max_words, max_chars, max_pause, FILLER_WORDS,
                   subtitles, index, seg, buffer, start_time, pc, log>>

\* the word is buffered and no trigger is true
KeepWord ==
    /\ pc = "words"
    /\ i < Len(words)
    /\ ~is_filler(words[i + 1])
    /\ LET k == i + 1
           buf == Append(buffer, k)
       IN  /\ ~should_flush(buf, k)
           /\ start_time' = first_start(k)
           /\ buffer' = buf
           /\ log' = Append(log, [seg |-> seg, at |-> k, buf |-> buf,
                                  flushed |-> FALSE, cue |-> 0])
    /\ i' = i + 1
    /\ UNCHANGED <<assVars, extVars, segments, max_words, max_chars, max_pause, FILLER_WORDS,
                   subtitles, index, seg, pc>>

\* the word is buffered and the buffer is flushed
FlushWord ==
    /\ pc = "words"
    /\ i < Len(words)
    /\ ~is_filler(words[i + 1])
    /\ LET k == i + 1
           buf == Append(buffer, k)
           text == cue_text(buf)
       IN  /\ should_flush(buf, k)
           /\ subtitles' = IF text # <<>>
                            THEN Append(subtitles,
                                        Subtitle(index, first_start(k), end_time(buf), text))
                            ELSE subtitles
           /\ index' = next_index(text)
           /\ log' = Append(log, [seg |-> seg, at |-> k, buf |-> buf,
                                  flushed |-> TRUE,
                                  cue |-> IF text # <<>> THEN Len(subtitles) + 1 ELSE 0])
    /\ buffer' = <<>>
    /\ start_time' = None
    /\ i' = i + 1
    /\ UNCHANGED <<assVars, extVars, segments, max_words, max_chars, max_pause,
                   FILLER_WORDS, seg, pc>>

\* return subtitles
Return ==
    /\ at_outer_loop
    /\ seg >= Len(segments)
    /\ pc' = "done"
    /\ UNCHANGED <<assVars, extVars, segments, max_words, max_chars, max_pause, FILLER_WORDS,
                   subtitles, index, seg, i, buffer, start_time, log>>


------------------------------------------------------------------------------
(* Python floats.  A float is an IEEE 754 double; every operation of the    *)
(* source on floats (int / int, float / int, float * 100, float - int,      *)
(* int(float), <) is computed here on the binary digits, rounded to nearest *)
(* with ties to even, so that int(0.29 * 100) is 28 as in the program.      *)

\* significand digits of a Python float (IEEE 754 double)
MantBits == 53
\* the digit sequences are worked on in groups of LimbBits digits
LimbBits == 10
Limb == 2 ^ LimbBits

Zeros(n) == [k \in 1..n |-> 0]

\* the w low binary digits of a natural number, most significant first
BitsOfWidth(v, w) == [k \in 1..w |-> (v \div (2 ^ (w - k))) % 2]

\* the digits without their leading zeros
StripZeros(b) ==
    IF \A k \in 1..Len(b) : b[k] = 0 THEN <<>>
    ELSE LET first == CHOOSE k \in 1..Len(b) : b[k] = 1 /\ \A j \in 1..(k - 1) : b[j] = 0
         IN  SubSeq(b, first, Len(b))

\* the number a digit sequence of at most 31 digits stands for
RECURSIVE IntOf(_)
IntOf(b) ==
    IF b = <<>> THEN 0
    ELSE IF Len(b) = 1 THEN b[1]
    ELSE LET h == Len(b) \div 2
         IN  IntOf(SubSeq(b, 1, h)) * (2 ^ (Len(b) - h)) + IntOf(SubSeq(b, h + 1, Len(b)))

\* the j-th group of LimbBits digits of b, whose length is a multiple of LimbBits
LimbAt(b, j) ==
    LET o == (j - 1) * LimbBits
    IN  b[o + 1] * 512 + b[o + 2] * 256 + b[o + 3] * 128 + b[o + 4] * 64 + b[o + 5] * 32
            + b[o + 6] * 16 + b[o + 7] * 8 + b[o + 8] * 4 + b[o + 9] * 2 + b[o + 10]

\* the groups of LimbBits digits of b
LimbsOf(b) == [j \in 1..(Len(b) \div LimbBits) |-> LimbAt(b, j)]

\* the digits of a sequence of limbs
BitsOfLimbs(ls) ==
    [p \in 1..(Len(ls) * LimbBits) |->
        (ls[((p - 1) \div LimbBits) + 1] \div (2 ^ (LimbBits - 1 - ((p - 1) % LimbBits)))) % 2]

\* b + 1 on MantBits digits; a carry out of the top digit gives one digit more
Incr(b) ==
    IF \A k \in 1..Len(b) : b[k] = 1 THEN <<1>> \o Zeros(Len(b))
    ELSE LET z == CHOOSE k \in 1..Len(b) : b[k] = 0 /\ \A j \in (k + 1)..Len(b) : b[j] = 1
         IN  SubSeq(b, 1, z - 1) \o <<1>> \o Zeros(Len(b) - z)

\* a double m * 2^e: m is MantBits digits with m[1] = 1, or no digit for 0.0
FZero == [m |-> <<>>, e |-> 0]

\* round to nearest, ties to even: the double nearest to the number whose
\* binary digits are `bits`, the last of weight 2^elast, plus a rest in
\* (0, 2^elast) when sticky
RoundSig(sig, sticky, elast) ==
    LET n == Len(sig)
    IN  IF n = 0 THEN FZero
        ELSE IF n <= MantBits
        THEN [m |-> sig \o Zeros(MantBits - n), e |-> elast - (MantBits - n)]
        ELSE LET m0 == SubSeq(sig, 1, MantBits)
                 rnd == sig[MantBits + 1]
                 rest == sticky \/ \E k \in (MantBits + 2)..n : sig[k] = 1
                 up == rnd = 1 /\ (rest \/ m0[MantBits] = 1)
                 m1 == IF up THEN Incr(m0) ELSE m0
                 e1 == elast + (n - MantBits)
             IN  IF Len(m1) > MantBits
                 THEN [m |-> SubSeq(m1, 1, MantBits), e |-> e1 + 1]
                 ELSE [m |-> m1, e |-> e1]

Round(bits, sticky, elast) == RoundSig(StripZeros(bits), sticky, elast)

\* groups of digits computed after the point: enough for every value >= 2^-26
FracLimbs == 8

\* r * Limb^j mod q, for 0 <= r < q < 2^31 / Limb
RECURSIVE RemAfter(_, _, _)
RemAfter(r, q, j) == IF j = 0 THEN r ELSE (RemAfter(r, q, j - 1) * Limb) % q

\* the double nearest to ip + r / q (int / int true division)
FromRatio(ip, r, q) ==
    LET limbs == [j \in 1..FracLimbs |-> (RemAfter(r, q, j - 1) * Limb) \div q]
    IN  Round(BitsOfWidth(ip, 31) \o BitsOfLimbs(limbs),
              RemAfter(r, q, FracLimbs) # 0, -(FracLimbs * LimbBits))

\* remainder of the first j limbs by n
RECURSIVE DivRem(_, _, _)
DivRem(ls, n, j) == IF j = 0 THEN 0 ELSE (DivRem(ls, n, j - 1) * Limb + ls[j]) % n

\* the limbs of the quotient of the limbs ls by n
DivQuot(ls, n) == [j \in 1..Len(ls) |-> (DivRem(ls, n, j - 1) * Limb + ls[j]) \div n]

\* groups of digits of a quotient: MantBits and 17 more
DivLimbs == 7

\* x / float(n), for an integer 1 <= n < Limb
FDivLimbs(ls, n, e) ==
    Round(BitsOfLimbs(DivQuot(ls, n)), DivRem(ls, n, DivLimbs) # 0,
          e - (DivLimbs * LimbBits - MantBits))

FDiv(x, n) ==
    IF x.m = <<>> THEN FZero
    ELSE FDivLimbs(LimbsOf(x.m \o Zeros(DivLimbs * LimbBits - MantBits)), n, x.e)

\* groups of digits that hold a significand
MulLimbs == 6

\* carry out of limb j + 1 into limb j of the limbs ls times c
RECURSIVE MulCarry(_, _, _)
MulCarry(ls, c, j) ==
    IF j = Len(ls) THEN 0
    ELSE (ls[j + 1] * c + MulCarry(ls, c, j + 1)) \div Limb

\* the limbs of the product, the carry out of the first limb in front
MulProd(ls, c) ==
    [j \in 1..(Len(ls) + 1) |->
        IF j = 1 THEN MulCarry(ls, c, 0)
        ELSE (ls[j - 1] * c + MulCarry(ls, c, j - 1)) % Limb]

\* x * float(c), for an integer 1 <= c < Limb
FMul(x, c) ==
    IF x.m = <<>> THEN FZero
    ELSE Round(BitsOfLimbs(MulProd(LimbsOf(Zeros(MulLimbs * LimbBits - MantBits) \o x.m), c)),
               FALSE, x.e)

\* the digits of x before the point
IntBits(x) == IF x.m = <<>> THEN <<>>
              ELSE IF x.e >= 0 THEN x.m \o Zeros(x.e)
              ELSE IF MantBits + x.e <= 0 THEN <<>>
              ELSE SubSeq(x.m, 1, MantBits + x.e)

\* int(x), for 0 <= x < 2^31
FTrunc(x) == IntOf(IntBits(x))

\* x - int(x), which is exact
FFrac(x) ==
    IF x.m = <<>> \/ x.e >= 0 THEN FZero
    ELSE IF MantBits + x.e <= 0 THEN x
    ELSE Round(SubSeq(x.m, MantBits + x.e + 1, MantBits), FALSE, x.e)

\* x < y, for x, y >= 0
FLess(x, y) ==
    IF y.m = <<>> THEN FALSE
    ELSE IF x.m = <<>> THEN TRUE
    ELSE IF x.e # y.e THEN x.e < y.e
    ELSE \E k \in 1..MantBits :
            x.m[k] < y.m[k] /\ \A j \in 1..(k - 1) : x.m[j] = y.m[j]

------------------------------------------------------------------------------
(* datetime.timedelta, for 0 <= value < one day: seconds and microseconds.  *)

timedelta(sec, us) == [seconds |-> sec, microseconds |-> us]

\* a - b, for a >= b
td_sub(a, b) ==
    IF a.microseconds >= b.microseconds
    THEN timedelta(a.seconds - b.seconds, a.microseconds - b.microseconds)
    ELSE timedelta(a.seconds - b.seconds - 1, a.microseconds + 1000000 - b.microseconds)

\* a + us microseconds
td_add(a, us) ==
    timedelta(a.seconds + (a.microseconds + us) \div 1000000,
              (a.microseconds + us) % 1000000)

\* the value in microseconds (small values only)
td_us(a) == a.seconds * 1000000 + a.microseconds

\* td.total_seconds(): (seconds * 10**6 + microseconds) / 10**6
total_seconds(td) == FromRatio(td.seconds, td.microseconds, 1000000)

------------------------------------------------------------------------------
(* Formatting.                                                              *)

DigitChars == <<"0", "1", "2", "3", "4", "5", "6", "7", "8", "9">>

\* str(n) for n >= 0
RECURSIVE Str(_)
Str(n) == IF n < 10 THEN <<DigitChars[n + 1]>>
          ELSE Append(Str(n \div 10), DigitChars[(n % 10) + 1])

\* f"{n:02d}"
Pad2(n) == IF n < 10 THEN <<"0">> \o Str(n) ELSE Str(n)

\* the fields of format_ass_time
ass_hours(td) == FTrunc(total_seconds(td)) \div 3600

ass_minutes(td) == (FTrunc(total_seconds(td)) % 3600) \div 60

ass_seconds(td) == FTrunc(total_seconds(td)) % 60

\* int((td.total_seconds() - int(td.total_seconds())) * 100)
ass_centiseconds(td) == FTrunc(FMul(FFrac(total_seconds(td)), 100))

\* f"{hours}:{minutes:02d}:{seconds:02d}.{centiseconds:02d}"
format_ass_time(td) ==
    Str(ass_hours(td)) \o <<":">> \o Pad2(ass_minutes(td)) \o <<":">>
        \o Pad2(ass_seconds(td)) \o <<".">> \o Pad2(ass_centiseconds(td))

------------------------------------------------------------------------------
(* save_karaoke_ass.                                                        *)

\* the header text, written by one f.write
ass_header == "[Script Info] [V4+ Styles] [Events]"

\* words = sub.content.split()
sub_words(sub) == split(sub.content)

\* duration = (sub.end - sub.start).total_seconds()
sub_duration(sub) == total_seconds(td_sub(sub.end, sub.start))

\* mutant: <= for <
effective_duration_le(duration) ==
    IF ~FLess(FromRatio(0, 1, 10), duration) THEN FromRatio(0, 1, 2) ELSE duration

\* if duration < 0.1: duration = 0.5
effective_duration(duration) ==
    IF FLess(duration, FromRatio(0, 1, 10)) THEN FromRatio(0, 1, 2) ELSE duration

\* per_word_duration = duration / max(len(words), 1)
per_word_duration(duration, n) == FDiv(duration, IF n > 1 THEN n ELSE 1)

\* mutant: rounded up and not down
per_word_k_up(pwd) ==
    LET k == FTrunc(FMul(pwd, 100)) + 1 IN IF k > 10 THEN k ELSE 10

\* per_word_k = max(10, int(per_word_duration * 100))
per_word_k(pwd) ==
    LET k == FTrunc(FMul(pwd, 100)) IN IF k > 10 THEN k ELSE 10

\* f"{{\\k{per_word_k}}}{word}"
karaoke_tag(k, word) == <<"{", "\\", "k">> \o Str(k) \o <<"}">> \o word

\* mutant: a space before every word, the first too
karaoke_parts_lead(ws, k) ==
    [j \in 1..(2 * Len(ws)) |->
        IF j % 2 = 1 THEN <<SPACE>> ELSE karaoke_tag(k, ws[j \div 2])]

\* karaoke_parts: a space before every word but the first
karaoke_parts(ws, k) ==
    [j \in 1..(IF ws = <<>> THEN 0 ELSE 2 * Len(ws) - 1) |->
        IF j % 2 = 0 THEN <<SPACE>> ELSE karaoke_tag(k, ws[(j + 1) \div 2])]

\* karaoke_line = "".join(karaoke_parts)
karaoke_line(sub) ==
    LET ws == sub_words(sub)
        k == per_word_k(per_word_duration(effective_duration(sub_duration(sub)), Len(ws)))
    IN  join(<<>>, karaoke_parts(ws, k))

\* f"Dialogue: 0,{start},{end},Burst,,0,0,0,,{karaoke_line}\n"
dialogue(sub) ==
    [kind |-> "Dialogue", start |-> format_ass_time(sub.start),
     end |-> format_ass_time(sub.end), text |-> karaoke_line(sub)]

\* cue texts as transcribe_chunks makes them: stripped, words joined by a
\* space, a word keeping the white space the transcriber gave it
AssContents == { <<"a">>, <<"a", " ", "b">>, <<"a", " ", " ", "U", "m", " ", "c">> }

\* cue durations in microseconds: just below 0.1 s, 0.1 s (a share per word
\* below 10 cs for two words or more), and two durations whose share per
\* word, 29 cs for one word and for three, is no exact double
AssDurations == { 99999, 100000, 290000, 870000 }

AssStart == timedelta(1, 250000)

Cues ==
    { [start |-> AssStart, end |-> td_add(AssStart, d), content |-> c] :
        d \in AssDurations, c \in AssContents }

AssInit ==
    /\ subs \in UNION { [1..n -> Cues] : n \in 0..MaxSubs }
    /\ f = <<>>
    /\ sub_n = 0
    /\ ass_pc = "open"

\* with open(ass_path, "w") as f: f.write(ass_header)
WriteHeader ==
    /\ ass_pc = "open"
    /\ f' = <<[kind |-> "Header", start |-> <<>>, end |-> <<>>, text |-> ass_header]>>
    /\ ass_pc' = "loop"
    /\ UNCHANGED <<chunkVars, extVars, subs, sub_n>>

\* for sub in subs: ... f.write(...)
WriteDialogue ==
    /\ ass_pc = "loop"
    /\ sub_n < Len(subs)
    /\ f' = Append(f, dialogue(subs[sub_n + 1]))
    /\ sub_n' = sub_n + 1
    /\ UNCHANGED <<chunkVars, extVars, subs, ass_pc>>

\* the loop is over and the with block closes the file
CloseFile ==
    /\ ass_pc = "loop"
    /\ sub_n >= Len(subs)
    /\ ass_pc' = "closed"
    /\ UNCHANGED <<chunkVars, extVars, subs, f, sub_n>>

\* transcribe_chunks is not running
ChunkIdle ==
    /\ segments = <<>>
    /\ max_words = 1
    /\ max_chars = 1
    /\ max_pause = PauseLimit
    /\ FILLER_WORDS = {}
    /\ subtitles = <<>>
    /\ index = 1
    /\ seg = 0
    /\ i = 0
    /\ buffer = <<>>
    /\ start_time = None
    /\ pc = "idle"
    /\ log = <<>>

\* save_karaoke_ass is not running
AssIdle ==
    /\ subs = <<>>
    /\ f = <<>>
    /\ sub_n = 0
    /\ ass_pc = "idle"

------------------------------------------------------------------------------
(* format_ass_time as a function of its own: every input is a timedelta of  *)
(* whole centiseconds, or one microsecond off one.                          *)

FmtSeconds == { 0, 1, 59, 60, 3599, 3600, 3725 }

FmtMicros == { 0, 9999, 10000, 130000, 290000, 456000, 500000, 570000, 990000, 999999 }

FmtInit ==
    /\ fmt_td \in { timedelta(s, us) : s \in FmtSeconds, us \in FmtMicros }
    /\ fmt_ret = None
    /\ fmt_pc = "call"

\* return f"{hours}:{minutes:02d}:{seconds:02d}.{centiseconds:02d}"
FormatTime ==
    /\ fmt_pc = "call"
    /\ fmt_ret' = format_ass_time(fmt_td)
    /\ fmt_pc' = "returned"
    /\ UNCHANGED <<chunkVars, assVars, loopVars, dbVars, fmt_td>>

\* format_ass_time is not running
FmtIdle ==
    /\ fmt_td = timedelta(0, 0)
    /\ fmt_ret = None
    /\ fmt_pc = "idle"

------------------------------------------------------------------------------
(* The main loop run_bot_forever (src/main.py) and the stages it calls:     *)
(* text_to_speech_file (src/audio_creation.py), clip_video_based_on_audio   *)
(* (src/clipping.py), combine (src/video_creation.py), upload_youtube_short *)
(* (src/upload_short.py).  What a stage gets from outside the program (an   *)
(* HTTP answer, a media file, ffmpeg's exit status) is a choice between its *)
(* outcomes.  Durations are whole ticks.                                    *)

VIDEOS_PER_DAY == 8

MaxDur == 3               \* video and audio durations range over 1..MaxDur
MaxRestartFailures == 1   \* calls of schedule_restart_tomorrow that may raise

VOICE_ID_1 == <<"I", "R", "H", "A", "p", "O", "X", "L", "v", "n", "W", "5", "7", "Q", "J", "P", "Q", "H", "2", "P">>

VOICE_ID_2 == <<"B", "A", "d", "H", "0", "b", "M", "f", "q", "6", "V", "l", "e", "Q", "G", "L", "X", "j", "3", "8">>

\* a file that does not exist, and a file with a content
Missing == [exists |-> FALSE, content |-> <<>>]

File(content) == [exists |-> TRUE, content |-> content]

\* what TOGGLE_FILE may hold when the process starts
ToggleContents ==
    { Missing, File(<<>>), File(VOICE_ID_1), File(VOICE_ID_2),
      File(VOICE_ID_2 \o <<"\n">>), File(<<"x">>) }

\* get_next_voice_id: last_voice = f.read().strip(), "" when the file is missing
last_voice == IF toggle_file.exists THEN strip(toggle_file.content) ELSE <<>>

\* mutant: the voice last used is chosen again
next_voice_same == IF last_voice = VOICE_ID_2 THEN VOICE_ID_2 ELSE VOICE_ID_1

\* next_voice = VOICE_ID_1 if last_voice == VOICE_ID_2 else VOICE_ID_2
next_voice == IF last_voice = VOICE_ID_2 THEN VOICE_ID_1 ELSE VOICE_ID_2

\* should_use_failsafe(): os.path.exists(FAILSAFE_FLAG)
should_use_failsafe == failsafe_flag

\* mutant: the flag file is not written
enable_failsafe_skip == failsafe_flag

\* enable_failsafe(): the flag file exists afterwards
enable_failsafe == TRUE

\* disable_failsafe(): the flag file does not exist afterwards
disable_failsafe == FALSE

\* no clip written
NoClip == [written |-> FALSE, start |-> 0, end |-> 0]

\* the stages of one iteration, in the order of the calls
Stages == <<"generate", "tts", "clip", "combine", "upload">>

\* mutant: the handler goes on with the upload
after_exception_resume == "upload"

\* the statement that follows the except block of the loop: while True again
after_exception == "generate"

\* the handler of run_bot_forever caught an exception of a stage
Caught ==
    /\ bot_pc' = "retry"
    /\ UNCHANGED <<video_count, uploads, restart_failures>>

\* generated_story = reddit.generate_stories('AmITheAsshole')
GenerateStories ==
    /\ bot_pc = "generate"
    /\ attempted' = {"generate"}
    /\ \/ /\ \E story \in {"story", None} : generated_story' = story
          /\ done' = {"generate"}
          /\ bot_pc' = "tts"
          /\ UNCHANGED <<video_count, uploads, restart_failures>>
       \/ /\ generated_story' = "unset"
          /\ done' = {}
          /\ Caught
    \* what is left of the iteration before is gone
    /\ tts_result' = "none"
    /\ video_duration' = 0
    /\ audio_duration' = 0
    /\ clip_exc' = "None"
    /\ clip_file' = NoClip
    /\ comb_log' = <<>>
    /\ comb_result' = "none"
    /\ UNCHANGED <<chunkVars, assVars, fmtVars, dbVars, failsafe_flag, toggle_file, voice_ret,
                   voice_prev, clip_start, clip_end>>

\* text_to_speech_file(generated_story): if should_use_failsafe()
TtsEnter ==
    /\ bot_pc = "tts"
    /\ attempted' = attempted \cup {"tts"}
    /\ tts_result' = "running"
    /\ bot_pc' = IF should_use_failsafe THEN "tts_test" ELSE "tts_voice"
    /\ UNCHANGED <<chunkVars, assVars, fmtVars, dbVars, clipVars, combVars, video_count,
                   generated_story, done, uploads, restart_failures,
                   failsafe_flag, toggle_file, voice_ret, voice_prev>>

\* test_api_and_reset(): a test conversion; disable_failsafe() when it works
TestApiAndReset ==
    /\ bot_pc = "tts_test"
    /\ \E api_ok \in BOOLEAN :
          IF ~should_use_failsafe \/ api_ok
          THEN /\ failsafe_flag' = (IF should_use_failsafe THEN disable_failsafe
                                    ELSE failsafe_flag)
               /\ bot_pc' = "tts_voice"
          ELSE /\ bot_pc' = "tts_pyttsx3"
               /\ UNCHANGED failsafe_flag
    /\ UNCHANGED <<chunkVars, assVars, fmtVars, dbVars, clipVars, combVars, video_count,
                   generated_story, attempted, done, uploads, restart_failures,
                   toggle_file, voice_ret, voice_prev, tts_result>>

\* selected_voice_id = get_next_voice_id()
GetNextVoiceId ==
    /\ bot_pc = "tts_voice"
    /\ toggle_file' = File(next_voice)
    /\ voice_ret' = next_voice
    /\ voice_prev' = voice_ret
    /\ bot_pc' = "tts_convert"
    /\ UNCHANGED <<chunkVars, assVars, fmtVars, dbVars, clipVars, combVars, video_count,
                   generated_story, attempted, done, uploads, restart_failures,
                   failsafe_flag, tts_result>>

\* elevenlabs.text_to_speech.convert(...) and the write of the audio file;
\* on an exception enable_failsafe() and the fallback
ElevenLabsConvert ==
    /\ bot_pc = "tts_convert"
    /\ \E api_ok \in BOOLEAN :
          IF api_ok
          THEN /\ tts_result' = "elevenlabs"
               /\ done' = done \cup {"tts"}
               /\ bot_pc' = "clip"
               /\ UNCHANGED failsafe_flag
          ELSE /\ failsafe_flag' = enable_failsafe
               /\ bot_pc' = "tts_pyttsx3"
               /\ UNCHANGED <<tts_result, done>>
    /\ UNCHANGED <<chunkVars, assVars, fmtVars, dbVars, clipVars, combVars, video_count,
                   generated_story, attempted, uploads, restart_failures,
                   toggle_file, voice_ret, voice_prev>>

\* return text_to_speech_pyttsx3(text), which raises when pyttsx3 fails
TextToSpeechPyttsx3 ==
    /\ bot_pc = "tts_pyttsx3"
    /\ \E engine_ok \in BOOLEAN :
          IF engine_ok
          THEN /\ tts_result' = "pyttsx3"
               /\ done' = done \cup {"tts"}
               /\ bot_pc' = "clip"
               /\ UNCHANGED <<video_count, uploads, restart_failures>>
          ELSE /\ tts_result' = "raised"
               /\ UNCHANGED done
               /\ Caught
    /\ UNCHANGED <<chunkVars, assVars, fmtVars, dbVars, clipVars, combVars,
                   generated_story, attempted,
                   failsafe_flag, toggle_file, voice_ret, voice_prev>>

\* clip_video_based_on_audio.  mutant: max_start one tick late
max_start_late(vd, ad) == vd - ad + 1

\* max_start = video_duration - audio_duration
max_start(vd, ad) == vd - ad

\* video = VideoFileClip(video_path) ... if max_start <= 0: raise ValueError
ClipLoad ==
    /\ bot_pc = "clip"
    /\ attempted' = attempted \cup {"clip"}
    /\ \/ \E vd \in 1..MaxDur, ad \in 1..MaxDur :
             /\ video_duration' = vd
             /\ audio_duration' = ad
             /\ IF max_start(vd, ad) <= 0
                THEN /\ clip_exc' = "ValueError"
                     /\ Caught
                ELSE /\ clip_exc' = "None"
                     /\ bot_pc' = "clip_pick"
                     /\ UNCHANGED <<video_count, uploads, restart_failures>>
       \/ /\ clip_exc' = "Exception"
          /\ UNCHANGED <<video_duration, audio_duration>>
          /\ Caught
    /\ UNCHANGED <<chunkVars, assVars, fmtVars, dbVars, ttsVars, combVars,
                   generated_story, done, clip_start, clip_end, clip_file>>

\* start = random.uniform(0, max_start); end = start + audio_duration
ClipPick ==
    /\ bot_pc = "clip_pick"
    /\ \E start \in 0..max_start(video_duration, audio_duration) :
          /\ clip_start' = start
          /\ clip_end' = start + audio_duration
    /\ bot_pc' = "clip_write"
    /\ UNCHANGED <<chunkVars, assVars, fmtVars, dbVars, ttsVars, combVars, video_count,
                   generated_story, attempted, done, uploads, restart_failures,
                   video_duration, audio_duration, clip_exc, clip_file>>

\* clip = video.subclipped(start, end).without_audio(); clip.write_videofile(...)
ClipWrite ==
    /\ bot_pc = "clip_write"
    /\ \E written \in BOOLEAN :
          IF written
          THEN /\ clip_file' = [written |-> TRUE, start |-> clip_start, end |-> clip_end]
               /\ done' = done \cup {"clip"}
               /\ bot_pc' = "combine"
               /\ UNCHANGED <<clip_exc, video_count, uploads, restart_failures>>
          ELSE /\ clip_exc' = "Exception"
               /\ UNCHANGED <<clip_file, done>>
               /\ Caught
    /\ video_duration' = 0
    /\ audio_duration' = 0
    /\ clip_start' = 0
    /\ clip_end' = 0
    /\ UNCHANGED <<chunkVars, assVars, fmtVars, dbVars, ttsVars, combVars,
                   generated_story, attempted>>

\* combine: the calls of its try block, in order
CombSteps == <<"transcribe", "save", "mux", "burn">>

\* where the main thread is before each of them
CombPc == <<"combine", "comb_save", "comb_mux", "comb_burn">>

\* mutant: the handler of combine returns
combine_except_return == "returned"

\* except Exception as e: logger.error(...); raise
combine_except == "raised"

\* the k-th call of the try block of combine: it returns, or it raises (the
\* handlers of combine_video_audio and burn_subtitles log and raise again)
\* and the handler of combine runs
CombStep(k) ==
    /\ bot_pc = CombPc[k]
    /\ attempted' = attempted \cup {"combine"}
    /\ \E ok \in BOOLEAN :
          /\ comb_log' = Append(IF k = 1 THEN <<>> ELSE comb_log,
                                [step |-> CombSteps[k], ok |-> ok])
          /\ IF ok /\ k < Len(CombSteps)
             THEN /\ comb_result' = "running"
                  /\ bot_pc' = CombPc[k + 1]
                  /\ UNCHANGED <<done, video_count, uploads, restart_failures>>
             ELSE IF ok \/ combine_except = "returned"
             THEN /\ comb_result' = "returned"
                  /\ done' = done \cup {"combine"}
                  /\ bot_pc' = "upload"
                  /\ UNCHANGED <<video_count, uploads, restart_failures>>
             ELSE /\ comb_result' = combine_except
                  /\ UNCHANGED done
                  /\ Caught
    /\ UNCHANGED <<chunkVars, assVars, fmtVars, dbVars, ttsVars, clipVars, generated_story>>

\* subs = transcribe_chunks(AUDIO_PATH)
CombTranscribe == CombStep(1)

\* save_karaoke_ass(subs, ASS_PATH)
CombSave == CombStep(2)

\* combine_video_audio(VIDEO_PATH, AUDIO_PATH, TEMP_VIDEO)
CombMux == CombStep(3)

\* burn_subtitles(TEMP_VIDEO, ASS_PATH, OUTPUT_VIDEO)
CombBurn == CombStep(4)

\* upload_youtube_short(FINAL_OUTPUT, ...): it returns, or logs and raises
UploadYoutubeShort ==
    /\ bot_pc = "upload"
    /\ attempted' = attempted \cup {"upload"}
    /\ \E ok \in BOOLEAN :
          IF ok
          THEN /\ uploads' = uploads + 1
               /\ done' = done \cup {"upload"}
               /\ bot_pc' = "count"
               /\ UNCHANGED <<video_count, restart_failures>>
          ELSE /\ UNCHANGED done
               /\ Caught
    /\ UNCHANGED <<chunkVars, assVars, fmtVars, dbVars, ttsVars, clipVars, combVars,
                   generated_story>>

\* video_count += 1; if video_count >= VIDEOS_PER_DAY: schedule_restart_tomorrow()
CountVideo ==
    /\ bot_pc = "count"
    /\ video_count' = video_count + 1
    /\ bot_pc' = IF video_count + 1 >= VIDEOS_PER_DAY THEN "schedule" ELSE "wait"
    /\ UNCHANGED <<chunkVars, assVars, fmtVars, dbVars, ttsVars, clipVars, combVars,
                   generated_story, attempted, done, uploads, restart_failures>>

\* schedule_restart_tomorrow(): it writes restart_bot.py, starts it and
\* leaves by sys.exit(0); open(), f.write() and subprocess.Popen() may raise
\* OSError, which the handler of the loop catches
ScheduleRestartTomorrow ==
    /\ bot_pc = "schedule"
    /\ \/ /\ bot_pc' = "exited"
          /\ UNCHANGED restart_failures
       \/ /\ restart_failures < MaxRestartFailures
          /\ restart_failures' = restart_failures + 1
          /\ bot_pc' = "retry"
    /\ UNCHANGED <<chunkVars, assVars, fmtVars, dbVars, ttsVars, clipVars, combVars,
                   video_count, generated_story, attempted, done, uploads>>

\* time.sleep(WAIT_BETWEEN_VIDEOS * 60), then the next iteration
WaitBetweenVideos ==
    /\ bot_pc = "wait"
    /\ bot_pc' = "generate"
    /\ UNCHANGED <<chunkVars, assVars, fmtVars, dbVars, ttsVars, clipVars, combVars,
                   video_count, generated_story, attempted, done, uploads,
                   restart_failures>>

\* except Exception as e: ... time.sleep(60 * 5), then the next iteration
RetryLater ==
    /\ bot_pc = "retry"
    /\ bot_pc' = after_exception
    /\ UNCHANGED <<chunkVars, assVars, fmtVars, dbVars, ttsVars, clipVars, combVars,
                   video_count, generated_story, attempted, done, uploads,
                   restart_failures>>

LoopInit ==
    /\ bot_pc = "generate"
    /\ video_count = 0
    /\ generated_story = "unset"
    /\ attempted = {}
    /\ done = {}
    /\ uploads = 0
    /\ restart_failures = 0
    /\ failsafe_flag \in BOOLEAN
    /\ toggle_file \in ToggleContents
    /\ voice_ret = <<>>
    /\ voice_prev = <<>>
    /\ tts_result = "none"
    /\ video_duration = 0
    /\ audio_duration = 0
    /\ clip_start = 0
    /\ clip_end = 0
    /\ clip_exc = "None"
    /\ clip_file = NoClip
    /\ comb_log = <<>>
    /\ comb_result = "none"

\* the main loop is not running
LoopIdle ==
    /\ bot_pc = "idle"
    /\ video_count = 0
    /\ generated_story = "unset"
    /\ attempted = {}
    /\ done = {}
    /\ uploads = 0
    /\ restart_failures = 0
    /\ failsafe_flag = FALSE
    /\ toggle_file = Missing
    /\ voice_ret = <<>>
    /\ voice_prev = <<>>
    /\ tts_result = "none"
    /\ video_duration = 0
    /\ audio_duration = 0
    /\ clip_start = 0
    /\ clip_end = 0
    /\ clip_exc = "None"
    /\ clip_file = NoClip
    /\ comb_log = <<>>
    /\ comb_result = "none"
------------------------------------------------------------------------------
(* RedditStoryBot (src/redditbot.py): the sqlite connection and cursor      *)
(* shared by the main thread and the updater thread, and self.db_lock.      *)
(* A method is the sequence of its lock and database steps; a database      *)
(* operation begins and ends in two steps, and may raise.                   *)

MaxPosts == 2     \* posts in a listing of load_top_posts or update_hot_stories

Threads == {"main", "updater"}

Acq == [kind |-> "acquire", op |-> ""]

Rel == [kind |-> "release", op |-> ""]

Db(op) == [kind |-> "db", op |-> op]

\* n times the steps body
RECURSIVE Times(_, _)
Times(n, body) == IF n = 0 THEN <<>> ELSE body \o Times(n - 1, body)

\* with self.db_lock: two cursor.execute (one subreddit), conn.commit
setup_database == <<Acq, Db("execute"), Db("execute"), Db("commit"), Rel>>

\* for post in ...: with self.db_lock: cursor.execute; then, after the
\* loop and outside the with block, self.conn.commit()
load_top_posts(n) == Times(n, <<Acq, Db("execute"), Rel>>) \o <<Db("commit")>>

\* with self.db_lock: cursor.execute, cursor.fetchall
get_random_stories == <<Acq, Db("execute"), Db("fetch"), Rel>>

\* with self.db_lock: for post in hot_posts: cursor.execute; conn.commit
update_hot_stories(n) == <<Acq>> \o Times(n, <<Db("execute")>>) \o <<Db("commit"), Rel>>

\* with self.db_lock: cursor.execute, conn.commit
cleanup == <<Acq, Db("execute"), Db("commit"), Rel>>

\* the methods a thread calls: the updater thread runs update_hot_stories
\* (main.py), the main thread the other methods
Methods(t) ==
    IF t = "updater" THEN { update_hot_stories(n) : n \in 0..MaxPosts }
    ELSE { setup_database, get_random_stories, cleanup }
             \cup { load_top_posts(n) : n \in 0..MaxPosts }

DbInit ==
    /\ db_lock = "free"
    /\ th_prog = [t \in Threads |-> <<>>]
    /\ th_op = [t \in Threads |-> ""]

\* thread t calls a method
CallMethod(t) ==
    /\ th_prog[t] = <<>>
    /\ \E m \in Methods(t) : th_prog' = [th_prog EXCEPT ![t] = m]
    /\ UNCHANGED <<chunkVars, assVars, fmtVars, loopVars, db_lock, th_op>>

\* with self.db_lock: __enter__ blocks until the lock is free
AcquireLock(t) ==
    /\ th_prog[t] # <<>>
    /\ Head(th_prog[t]).kind = "acquire"
    /\ db_lock = "free"
    /\ db_lock' = t
    /\ th_prog' = [th_prog EXCEPT ![t] = Tail(@)]
    /\ UNCHANGED <<chunkVars, assVars, fmtVars, loopVars, th_op>>

\* the end of the with block
ReleaseLock(t) ==
    /\ th_prog[t] # <<>>
    /\ Head(th_prog[t]).kind = "release"
    /\ db_lock' = "free"
    /\ th_prog' = [th_prog EXCEPT ![t] = Tail(@)]
    /\ UNCHANGED <<chunkVars, assVars, fmtVars, loopVars, th_op>>

\* thread t enters cursor.execute, cursor.fetchall or conn.commit
BeginDbOp(t) ==
    /\ th_prog[t] # <<>>
    /\ Head(th_prog[t]).kind = "db"
    /\ th_op[t] = ""
    /\ th_op' = [th_op EXCEPT ![t] = Head(th_prog[t]).op]
    /\ UNCHANGED <<chunkVars, assVars, fmtVars, loopVars, db_lock, th_prog>>

\* the operation returns; or it raises, which leaves the with block (the
\* lock is released) and ends the method (its handler, or its caller's)
EndDbOp(t) ==
    /\ th_op[t] # ""
    /\ th_op' = [th_op EXCEPT ![t] = ""]
    /\ \/ /\ th_prog' = [th_prog EXCEPT ![t] = Tail(@)]
          /\ UNCHANGED db_lock
       \/ /\ th_prog' = [th_prog EXCEPT ![t] = <<>>]
          /\ db_lock' = IF db_lock = t THEN "free" ELSE db_lock
    /\ UNCHANGED <<chunkVars, assVars, fmtVars, loopVars>>

\* no thread uses the database
DbIdle ==
    /\ db_lock = "idle"
    /\ th_prog = <<>>
    /\ th_op = <<>>

------------------------------------------------------------------------------
(* Specifications: one per function, the others idle.                       *)

\* nothing but the function of the specification runs
ExtIdle == FmtIdle /\ LoopIdle /\ DbIdle

Init == ChunkInit /\ AssIdle /\ ExtIdle

Next == NextSegment \/ SkipFiller \/ KeepWord \/ FlushWord \/ Return

Spec == Init /\ [][Next]_vars

InitAss == AssInit /\ ChunkIdle /\ ExtIdle

NextAss == WriteHeader \/ WriteDialogue \/ CloseFile

SpecAss == InitAss /\ [][NextAss]_vars

InitFmt == FmtInit /\ ChunkIdle /\ AssIdle /\ LoopIdle /\ DbIdle

NextFmt == FormatTime

SpecFmt == InitFmt /\ [][NextFmt]_vars

InitLoop == LoopInit /\ ChunkIdle /\ AssIdle /\ FmtIdle /\ DbIdle

NextLoop ==
    \/ GenerateStories
    \/ TtsEnter \/ TestApiAndReset \/ GetNextVoiceId \/ ElevenLabsConvert
    \/ TextToSpeechPyttsx3
    \/ ClipLoad \/ ClipPick \/ ClipWrite
    \/ CombTranscribe \/ CombSave \/ CombMux \/ CombBurn
    \/ UploadYoutubeShort \/ CountVideo \/ ScheduleRestartTomorrow
    \/ WaitBetweenVideos \/ RetryLater

SpecLoop == InitLoop /\ [][NextLoop]_vars

InitDb == DbInit /\ ChunkIdle /\ AssIdle /\ FmtIdle /\ LoopIdle

NextDb ==
    \E t \in Threads :
        CallMethod(t) \/ AcquireLock(t) \/ ReleaseLock(t) \/ BeginDbOp(t) \/ EndDbOp(t)

SpecDb == InitDb /\ [][NextDb]_vars

------------------------------------------------------------------------------
(* What the claims speak of, read off the transcript and the history.       *)

RECURSIVE Flatten(_)
Flatten(ss) == IF ss = <<>> THEN <<>> ELSE Head(ss) \o Flatten(Tail(ss))

RECURSIVE Filter(_, _, _)
Filter(ws, s, k) ==
    IF k > Len(ws) THEN <<>>
    ELSE IF lower(strip(ws[k].word)) \notin FILLER_WORDS
         THEN <<(<<s, k>>)>> \o Filter(ws, s, k + 1)
         ELSE Filter(ws, s, k + 1)

\* positions <<segment, word>> of the words whose normalized text is no filler
Retained(s) == Filter(segments[s], s, 1)

AllRetained == Flatten([s \in 1..Len(segments) |-> Retained(s)])

WordAt(p) == segments[p[1]][p[2]]

\* a word that shows in a text: it has a character that is no white space
Visible(p) == strip(WordAt(p).word) # <<>>

VisibleOnly(ps) == SelectSeq(ps, Visible)

\* the history entry of cue c, and the positions of the words buffered for it
EntryOf(c) == CHOOSE e \in 1..Len(log) : log[e].cue = c

CuePositions(c) ==
    LET e == log[EntryOf(c)] IN [k \in 1..Len(e.buf) |-> <<e.seg, e.buf[k]>>]

AllCuePositions == Flatten([c \in 1..Len(subtitles) |-> CuePositions(c)])

\* the words read in the cue texts, in index order
CueTokens == Flatten([c \in 1..Len(subtitles) |-> split(subtitles[c].content)])

RetainedTokens ==
    Flatten([k \in 1..Len(AllRetained) |-> split(WordAt(AllRetained[k]).word)])

\* gap between two words of one segment
Gap(s, a, b) == segments[s][b].start - segments[s][a].end

\* the retained word before history entry e in its segment was left in the buffer
Carried(e) == e > 1 /\ log[e - 1].seg = log[e].seg /\ ~log[e - 1].flushed

------------------------------------------------------------------------------
(* C1 (as claimed): when transcribe_chunks returns, the words buffered for  *)
(* the cues, in index order, are exactly the retained words that show in a  *)
(* text, in their original order, and the cue texts read in index order     *)
(* list exactly the retained words: none lost, duplicated or reordered.     *)
C1_EveryRetainedWordInOneCue ==
    pc = "done" =>
        /\ VisibleOnly(AllCuePositions) = VisibleOnly(AllRetained)
        /\ CueTokens = RetainedTokens

(* C2: the cues carry the indices 1, 2, ..., n in emission order, the       *)
(* counter is one past the number of cues at every point, over all          *)
(* segments, and a flush of an empty text emits nothing.                    *)
C2_IndicesGapless ==
    /\ index = Len(subtitles) + 1
    /\ \A c \in 1..Len(subtitles) : subtitles[c].index = c
    /\ \A e \in 1..Len(log) :
          (log[e].flushed /\ log[e].cue = 0) =>
              strip(join(<<SPACE>>, [k \in 1..Len(log[e].buf) |->
                                        segments[log[e].seg][log[e].buf[k]].word])) = <<>>

\* cues from both segments and a flush of an empty text in between
C2_Witness ==
    /\ pc = "done"
    /\ \E e \in 1..Len(log) : log[e].flushed /\ log[e].cue = 0
    /\ \E c, d \in 1..Len(subtitles) :
          c < d /\ log[EntryOf(c)].seg = 1 /\ log[EntryOf(d)].seg = 2

(* C3: every cue starts at the start of the first word buffered for it and  *)
(* ends at the end of the last; with words ordered in time and no word      *)
(* ending before it starts, end >= start and the cue starts never decrease. *)
C3_CueTimes ==
    /\ \A c \in 1..Len(subtitles) :
          LET ps == CuePositions(c)
          IN  /\ subtitles[c].start = WordAt(ps[1]).start
              /\ subtitles[c].end = WordAt(ps[Len(ps)]).end
              /\ subtitles[c].end >= subtitles[c].start
    /\ \A c \in 1..(Len(subtitles) - 1) : subtitles[c].start <= subtitles[c + 1].start

\* a cue of two words or more, followed by another cue
C3_Witness ==
    /\ pc = "done"
    /\ \E c \in 1..(Len(subtitles) - 1) :
          /\ Len(CuePositions(c)) >= 2
          /\ subtitles[c].end > subtitles[c].start + WordDur

(* C4: right after a retained word is appended the buffer is flushed if and *)
(* only if it holds >= max_words words, or its joined text has >= max_chars *)
(* characters, or a next word exists and starts more than max_pause after   *)
(* this word's end, or no next word exists in the segment; the buffer grows *)
(* by one word at a time from the last flush on, cues come only from those  *)
(* flushes, and every cue holds between 1 and max_words words.              *)
C4_FlushIffTrigger ==
    /\ \A e \in 1..Len(log) :
          LET s == log[e].seg
              k == log[e].at
              b == log[e].buf
              ws == segments[s]
              text == join(<<SPACE>>, [n \in 1..Len(b) |-> ws[b[n]].word])
          IN  /\ log[e].flushed <=>
                    \/ Len(b) >= max_words
                    \/ Len(text) >= max_chars
                    \/ (k < Len(ws) /\ Gap(s, k, k + 1) > max_pause)
                    \/ k = Len(ws)
              /\ b = (IF Carried(e) THEN log[e - 1].buf ELSE <<>>) \o <<k>>
              /\ log[e].cue # 0 => log[e].flushed
    /\ Cardinality({e \in 1..Len(log) : log[e].cue # 0}) = Len(subtitles)
    /\ \A c \in 1..Len(subtitles) :
          Len(CuePositions(c)) >= 1 /\ Len(CuePositions(c)) <= max_words

\* a flush by each of the four triggers alone, and a word left in the buffer
C4_Witness ==
    /\ pc = "done"
    /\ \E e \in 1..Len(log) : ~log[e].flushed
    /\ \E e \in 1..Len(log) :
          LET s == log[e].seg
              k == log[e].at
              b == log[e].buf
              ws == segments[s]
              text == join(<<SPACE>>, [n \in 1..Len(b) |-> ws[b[n]].word])
          IN  /\ log[e].flushed
              /\ Len(b) = max_words
              /\ Len(text) < max_chars
              /\ k < Len(ws)
              /\ Gap(s, k, k + 1) <= max_pause

(* C5 (as claimed): no cue holds two adjacent words whose gap exceeds       *)
(* max_pause.                                                               *)
C5_NoLongPauseInsideCue ==
    \A c \in 1..Len(subtitles) :
        LET e == log[EntryOf(c)]
        IN  \A n \in 1..(Len(e.buf) - 1) : Gap(e.seg, e.buf[n], e.buf[n + 1]) <= max_pause

(* C6 (as claimed): a retained word longer than max_chars is alone in the   *)
(* cue that holds it.                                                       *)
C6_LongWordAlone ==
    \A c \in 1..Len(subtitles) :
        LET ps == CuePositions(c)
        IN  \A n \in 1..Len(ps) : Len(WordAt(ps[n]).word) > max_chars => Len(ps) = 1

(* C6 (amended): a retained word longer than max_chars is flushed as soon   *)
(* as it is appended, so it is the last word of its cue, it is alone in the *)
(* cue if and only if the buffer was empty when it came, and its text is    *)
(* whole in the cue text.                                                   *)
C6_LongWordEndsCue ==
    \A e \in 1..Len(log) :
        LET k == log[e].at
            w == segments[log[e].seg][k]
        IN  Len(w.word) > max_chars =>
              /\ log[e].flushed
              /\ log[e].buf[Len(log[e].buf)] = k
              /\ (Len(log[e].buf) = 1) <=> ~Carried(e)
              /\ log[e].cue # 0 =>
                    LET toks == split(subtitles[log[e].cue].content)
                    IN  Visible(<<log[e].seg, k>>) =>
                            toks[Len(toks)] = split(w.word)[1]

\* a long word that joins a word already buffered, and one that comes first
C6_Witness ==
    /\ pc = "done"
    /\ \E e, g \in 1..Len(log) :
          /\ Len(segments[log[e].seg][log[e].at].word) > max_chars
          /\ Len(segments[log[g].seg][log[g].at].word) > max_chars
          /\ Len(log[e].buf) = 2
          /\ Len(log[g].buf) = 1
          /\ log[e].cue # 0 /\ log[g].cue # 0

(* C7 (as claimed): no cue holds words of two segments, the last retained   *)
(* word of every segment ends a flushed buffer, and nothing is left in the  *)
(* buffer when the inner loop is over.                                      *)
C7_SegmentBoundaryFlushes ==
    /\ \A e \in 1..Len(log) :
          \A n \in 1..Len(log[e].buf) :
              log[e].buf[n] \in 1..Len(segments[log[e].seg])
    /\ (inner_loop_over \/ pc = "done") =>
          /\ buffer = <<>>
          /\ \A s \in 1..seg :
                Retained(s) # <<>> =>
                    \E e \in 1..Len(log) :
                        /\ log[e].seg = s
                        /\ log[e].flushed
                        /\ <<s, log[e].at>> = Retained(s)[Len(Retained(s))]

------------------------------------------------------------------------------
(* What the claims on save_karaoke_ass speak of, read off the file.         *)

\* where the timing tags of a text body open, and the j-th of them
TagOpens(text) == {p \in 1..Len(text) : text[p] = "{"}

NthOpen(text, j) ==
    CHOOSE p \in TagOpens(text) : Cardinality({q \in TagOpens(text) : q < p}) = j - 1

TagClose(text, p) ==
    CHOOSE q \in p..Len(text) : text[q] = "}" /\ \A x \in p..(q - 1) : text[x] # "}"

DigitVal(c) == CHOOSE d \in 0..9 : DigitChars[d + 1] = c

RECURSIVE Num(_)
Num(ds) ==
    IF ds = <<>> THEN 0
    ELSE 10 * Num(SubSeq(ds, 1, Len(ds) - 1)) + DigitVal(ds[Len(ds)])

\* the karaoke weights written in a text body, in order
LineWeights(text) ==
    [j \in 1..Cardinality(TagOpens(text)) |->
        Num(SubSeq(text, NthOpen(text, j) + 3, TagClose(text, NthOpen(text, j)) - 1))]

RECURSIVE SumSeq(_)
SumSeq(ns) == IF ns = <<>> THEN 0 ELSE Head(ns) + SumSeq(Tail(ns))

\* the Dialogue line written for the n-th cue
LineOf(n) == f[n + 1]

\* end - start of a cue, in microseconds
DurUs(sub) == td_us(sub.end) - td_us(sub.start)

\* the duration the weights are made of, in microseconds: 0.5 s below 0.1 s
EffUs(sub) == IF DurUs(sub) < 100000 THEN 500000 ELSE DurUs(sub)

WordCount(sub) == Len(split(sub.content))

\* one centisecond, in microseconds
CsUs == 10000

(* C8 (as claimed): every word of a cue gets the same weight, which is      *)
(* max(10, floor(effective duration in centiseconds / word count)); so it   *)
(* is >= 10, and for a one-word cue within one centisecond of the           *)
(* effective duration.                                                      *)
C8_WeightIsFloorOfShare ==
    \A n \in 1..sub_n :
        LET w == LineWeights(LineOf(n).text)
            wc == WordCount(subs[n])
            share == EffUs(subs[n]) \div (CsUs * wc)
        IN  /\ Len(w) = wc
            /\ \A j \in 1..wc : w[j] = (IF share > 10 THEN share ELSE 10)
            /\ \A j \in 1..wc : w[j] >= 10
            /\ wc = 1 => /\ w[1] * CsUs <= EffUs(subs[n]) + CsUs
                         /\ w[1] * CsUs >= EffUs(subs[n]) - CsUs

(* C9 (as claimed): the weights of a cue never sum to more than its         *)
(* effective duration in centiseconds, and to less than word_count          *)
(* centiseconds below it.                                                   *)
C9_SumWithinTruncation ==
    \A n \in 1..sub_n :
        LET total == SumSeq(LineWeights(LineOf(n).text)) * CsUs
            wc == WordCount(subs[n])
        IN  /\ total <= EffUs(subs[n])
            /\ EffUs(subs[n]) - total < wc * CsUs

(* C9 (amended): when the even share of a word is at least 10 centiseconds  *)
(* the weights never sum to more than the effective duration and fall short *)
(* of it by at most word_count centiseconds; when the share is below 10     *)
(* centiseconds every weight is 10 and the sum exceeds the effective        *)
(* duration.                                                                *)
C9_SumWithinShareOrFloor ==
    \A n \in 1..sub_n :
        LET w == LineWeights(LineOf(n).text)
            total == SumSeq(w) * CsUs
            wc == WordCount(subs[n])
        IN  IF EffUs(subs[n]) >= 10 * CsUs * wc
            THEN /\ total <= EffUs(subs[n])
                 /\ EffUs(subs[n]) - total <= wc * CsUs
            ELSE /\ \A j \in 1..Len(w) : w[j] = 10
                 /\ total > EffUs(subs[n])

\* a cue whose weights fall short by word_count centiseconds, and a cue
\* whose weights are the floor of 10
C9_Witness ==
    /\ ass_pc = "closed"
    /\ \E n \in 1..sub_n :
          /\ WordCount(subs[n]) = 3
          /\ EffUs(subs[n]) >= 10 * CsUs * 3
          /\ EffUs(subs[n]) - SumSeq(LineWeights(LineOf(n).text)) * CsUs = 3 * CsUs
    /\ \E n \in 1..sub_n :
          /\ EffUs(subs[n]) < 10 * CsUs * WordCount(subs[n])
          /\ SumSeq(LineWeights(LineOf(n).text)) = 10 * WordCount(subs[n])

\* the weight int(d / n * 100), floored at 10, of a duration d in seconds
WeightOf(d, n) ==
    LET k == FTrunc(FMul(FDiv(d, n), 100)) IN IF k > 10 THEN k ELSE 10

(* C10: every cue is written, also one shorter than 0.1 s; the Start and    *)
(* End fields of its line are the formatted start and end of the cue        *)
(* itself; the weights are made of 0.5 s when the cue is shorter than       *)
(* 0.1 s and of its real duration otherwise.                                *)
C10_ClampOnlyInWeights ==
    /\ ass_pc \in {"loop", "closed"} => Len(f) = 1 + sub_n
    /\ ass_pc = "closed" => sub_n = Len(subs)
    /\ \A n \in 1..sub_n :
          LET d == DurUs(subs[n])
              used == IF d < 100000 THEN FromRatio(0, 1, 2)
                      ELSE FromRatio(d \div 1000000, d % 1000000, 1000000)
              w == LineWeights(LineOf(n).text)
          IN  /\ LineOf(n).kind = "Dialogue"
              /\ LineOf(n).start = format_ass_time(subs[n].start)
              /\ LineOf(n).end = format_ass_time(subs[n].end)
              /\ Len(w) = WordCount(subs[n])
              /\ \A j \in 1..Len(w) : w[j] = WeightOf(used, WordCount(subs[n]))

\* a one-word cue of 0.099999 s, written from 1.25 s to 1.349999 s with
\* the weight of 0.5 s, beside a cue of 0.1 s with a weight of 10
C10_Witness ==
    /\ ass_pc = "closed"
    /\ \E n \in 1..sub_n :
          /\ DurUs(subs[n]) < 100000
          /\ LineOf(n).start = <<"0", ":", "0", "0", ":", "0", "1", ".", "2", "5">>
          /\ LineOf(n).end = <<"0", ":", "0", "0", ":", "0", "1", ".", "3", "4">>
          /\ LineWeights(LineOf(n).text) = <<50>>
    /\ \E n \in 1..sub_n :
          /\ DurUs(subs[n]) = 100000
          /\ LineWeights(LineOf(n).text) = <<10>>

------------------------------------------------------------------------------
(* save_karaoke_ass: claim C12.                                             *)

\* a text body without its {...} tags
RECURSIVE StripTags(_)
StripTags(text) ==
    IF text = <<>> THEN <<>>
    ELSE IF Head(text) = "{"
         THEN LET c == CHOOSE p \in 1..Len(text) :
                           text[p] = "}" /\ \A q \in 1..(p - 1) : text[q] # "}"
              IN  StripTags(SubSeq(text, c + 1, Len(text)))
         ELSE <<Head(text)>> \o StripTags(Tail(text))

\* C12: the header is written exactly once and before every event, then one
\* Dialogue line per cue in the order of the cues; a line has one timing
\* tag per word of its cue, and without the tags its text body is the
\* cue's words joined by single spaces (no space before the first).
C12_HeaderThenOneLinePerCue ==
    /\ ass_pc = "open" => f = <<>>
    /\ ass_pc \in {"loop", "closed"} =>
          /\ Len(f) = sub_n + 1
          /\ \A n \in 1..Len(f) : (f[n].kind = "Header") <=> (n = 1)
          /\ f[1].text = ass_header
          /\ \A n \in 1..sub_n :
                /\ LineOf(n).kind = "Dialogue"
                /\ LineOf(n).start = format_ass_time(subs[n].start)
                /\ LineOf(n).end = format_ass_time(subs[n].end)
                /\ Cardinality(TagOpens(LineOf(n).text)) = WordCount(subs[n])
                /\ StripTags(LineOf(n).text) = join(<<SPACE>>, split(subs[n].content))
    /\ ass_pc = "closed" => sub_n = Len(subs)

\* two cues written and the file closed, one cue of three words
C12_Witness ==
    /\ ass_pc = "closed"
    /\ Len(subs) = MaxSubs
    /\ WordCount(subs[1]) = 3
    /\ WordCount(subs[2]) = 1
    /\ Len(f) = MaxSubs + 1

------------------------------------------------------------------------------
(* format_ass_time: claim C11.                                              *)

\* the fields of a formatted time H:MM:SS.CC
FmtFields(str) ==
    LET n == Len(str)
    IN  [H |-> Num(SubSeq(str, 1, n - 9)), MM |-> Num(SubSeq(str, n - 7, n - 6)),
         SS |-> Num(SubSeq(str, n - 4, n - 3)), CC |-> Num(SubSeq(str, n - 1, n)),
         seps |-> <<str[n - 8], str[n - 5], str[n - 2]>>]

\* C11: for every time t >= 0 the string returned by format_ass_time is
\* H:MM:SS.CC with H = floor(t / 3600), MM and SS in 0..59 and CC =
\* floor(100 * fractional part of t), so that the fields give back t
\* truncated down to a whole centisecond.
C11_FieldsAreTruncatedTime ==
    fmt_pc = "returned" =>
        LET x == FmtFields(fmt_ret)
        IN  /\ x.seps = <<":", ":", ".">>
            /\ x.H = fmt_td.seconds \div 3600
            /\ x.MM \in 0..59 /\ x.SS \in 0..59 /\ x.CC \in 0..99
            /\ x.CC = fmt_td.microseconds \div CsUs
            /\ 3600 * x.H + 60 * x.MM + x.SS = fmt_td.seconds

------------------------------------------------------------------------------
(* combine: claim C13.                                                      *)

\* a step of the last call of combine raised
CombFailed == \E k \in 1..Len(comb_log) : ~comb_log[k].ok

\* C13: one call of combine runs transcription, the writing of the subtitle
\* document, the audio/video mux and the subtitle burn-in in that order,
\* each at most once; a step starts only when every step before it has
\* returned (so no burn-in after a failed mux); combine returns only when
\* all four have returned, and a failure of a step leaves combine by
\* raising to its caller, which then starts no upload.
C13_CombineOrderAndFailure ==
    /\ Len(comb_log) <= Len(CombSteps)
    /\ \A k \in 1..Len(comb_log) :
          /\ comb_log[k].step = CombSteps[k]
          /\ k < Len(comb_log) => comb_log[k].ok
    /\ comb_result = "returned" =>
          /\ Len(comb_log) = Len(CombSteps)
          /\ ~CombFailed
    /\ CombFailed =>
          /\ comb_result = "raised"
          /\ "combine" \notin done
          /\ "upload" \notin attempted
    /\ comb_result = "raised" => CombFailed

\* the mux has failed after transcription and writing: combine has raised
\* and the burn-in was not started
C13_Witness ==
    /\ Len(comb_log) = 3
    /\ comb_log[3] = [step |-> "mux", ok |-> FALSE]
    /\ comb_result = "raised"
    /\ bot_pc = "retry"

------------------------------------------------------------------------------
(* run_bot_forever: claims C14, C18, C19.                                   *)

\* the positions of the main thread inside each stage
StagePcs ==
    <<{"generate"},
      {"tts", "tts_test", "tts_voice", "tts_convert", "tts_pyttsx3"},
      {"clip", "clip_pick", "clip_write"},
      {"combine", "comb_save", "comb_mux", "comb_burn"},
      {"upload"}>>

\* the stages before the n-th
StagesBefore(n) == {Stages[j] : j \in 1..(n - 1)}

\* a stage is reached only when the stages before it have returned in this
\* iteration; video_count is the number of uploads that returned, but for
\* the moment between the return of an upload and video_count += 1
C14_State ==
    /\ \A n \in 2..Len(Stages) : bot_pc \in StagePcs[n] => done = StagesBefore(n)
    /\ bot_pc = "count" => done = StagesBefore(Len(Stages) + 1)
    /\ IF bot_pc = "count" THEN uploads = video_count + 1 ELSE uploads = video_count

\* video_count changes by one, after an upload that returned; an exception
\* leaves it as it is, and after the wait of the handler the loop starts
\* again with story generation
C14_Step ==
    /\ video_count' # video_count =>
          /\ video_count' = video_count + 1
          /\ bot_pc = "count"
          /\ "upload" \in done
    /\ bot_pc' = "retry" => video_count' = video_count
    /\ (bot_pc = "retry" /\ bot_pc' # "retry") => bot_pc' = "generate"

\* C14: whatever stages succeed and fail, the upload is called only after
\* story generation, speech synthesis, clipping and combine have returned
\* in the same iteration; video_count grows by exactly 1 and only after an
\* upload that returned; after an exception in a stage the loop waits and
\* starts the whole item again from story generation, video_count
\* unchanged.
C14_UploadLastCountAfterUpload == [](C14_State) /\ [][C14_Step]_vars

\* the second video is about to be uploaded: its story, its audio (from the
\* fallback), its clip and its subtitles were made in this iteration
C14_Witness ==
    /\ bot_pc = "upload"
    /\ video_count = 1
    /\ restart_failures = 0
    /\ done = StagesBefore(Len(Stages))
    /\ tts_result = "pyttsx3"

\* C18 (as claimed): at most VIDEOS_PER_DAY uploads complete in one process:
\* once video_count has reached VIDEOS_PER_DAY the loop is in
\* schedule_restart_tomorrow or the process has ended, whatever the steps of
\* the restart scheduling did, and no further iteration starts.
C18_QuotaEndsProcess ==
    /\ uploads <= VIDEOS_PER_DAY
    /\ video_count >= VIDEOS_PER_DAY => bot_pc \in {"schedule", "exited"}

\* C19 (as claimed): when generate_stories returned no story, no speech
\* synthesis, clipping, compositing or upload is attempted in that
\* iteration.
C19_NoStageWithoutStory ==
    generated_story = None => attempted \subseteq {"generate"}

------------------------------------------------------------------------------
(* text_to_speech_file: claims C16, C17.                                    *)

\* after a return of text_to_speech_file the flag file exists exactly when
\* the audio came from pyttsx3
C16_State ==
    tts_result \in {"elevenlabs", "pyttsx3"} => (failsafe_flag <=> tts_result = "pyttsx3")

\* a failed conversion sets the flag; only a successful API test of
\* test_api_and_reset removes it
C16_Step ==
    /\ (bot_pc = "tts_convert" /\ bot_pc' = "tts_pyttsx3") => failsafe_flag'
    /\ (failsafe_flag /\ ~failsafe_flag') => (bot_pc = "tts_test" /\ bot_pc' = "tts_voice")

\* C16: after every normal return of text_to_speech_file, over any sequence
\* of calls and API outcomes, the failsafe flag file exists if and only if
\* the call made its audio with the pyttsx3 fallback; every failed
\* ElevenLabs conversion sets the flag, and only a successful API test in
\* test_api_and_reset removes it.
C16_FlagIffFallback == [](C16_State) /\ [][C16_Step]_vars

\* a call has returned audio from ElevenLabs and the flag is absent; it is
\* not the first call that reached ElevenLabs (the voice was switched twice)
C16_Witness ==
    /\ bot_pc = "clip"
    /\ tts_result = "elevenlabs"
    /\ ~failsafe_flag
    /\ voice_prev # <<>>
    /\ video_count = 0

\* the value returned is one of the two voices, differs from the value
\* returned by the call before, and is what the toggle file holds
C17_State ==
    voice_ret # <<>> =>
        /\ voice_ret \in {VOICE_ID_1, VOICE_ID_2}
        /\ voice_ret # voice_prev
        /\ toggle_file = File(voice_ret)

\* a call that finds no toggle file returns VOICE_ID_2
C17_Step == (~toggle_file.exists /\ toggle_file'.exists) => voice_ret' = VOICE_ID_2

\* C17: over any sequence of calls, from a missing toggle file or from any
\* content, get_next_voice_id returns VOICE_ID_1 or VOICE_ID_2, never the
\* value the call before returned, and leaves the toggle file holding
\* exactly what it returned; the first call without a toggle file returns
\* VOICE_ID_2.
C17_VoiceToggles == [](C17_State) /\ [][C17_Step]_vars

\* the second call has returned VOICE_ID_1 after the first returned VOICE_ID_2
C17_Witness ==
    /\ voice_prev = VOICE_ID_2
    /\ voice_ret = VOICE_ID_1
    /\ toggle_file = File(VOICE_ID_1)
    /\ bot_pc = "tts_convert"

------------------------------------------------------------------------------
(* clip_video_based_on_audio: claim C20.                                    *)

\* the window about to be cut lies in the video and is as long as the
\* audio; with an audio at least as long as the video the call has raised
\* ValueError before any window was chosen
C20_State ==
    /\ bot_pc \in {"clip_pick", "clip_write"} => audio_duration < video_duration
    /\ bot_pc = "clip_write" =>
          /\ 0 <= clip_start
          /\ clip_start <= clip_end
          /\ clip_end <= video_duration
          /\ clip_end - clip_start = audio_duration
    /\ (video_duration > 0 /\ audio_duration >= video_duration) =>
          /\ clip_exc = "ValueError"
          /\ "clip" \notin done
    /\ clip_exc = "ValueError" => audio_duration >= video_duration

\* the call that finds the audio at least as long as the video raises and
\* writes no clip; a clip that is written is the window chosen
C20_Step ==
    /\ (bot_pc = "clip" /\ video_duration' > 0 /\ audio_duration' >= video_duration') =>
          /\ bot_pc' = "retry"
          /\ clip_exc' = "ValueError"
          /\ clip_file' = clip_file
    /\ (clip_file'.written /\ clip_file' # clip_file) =>
          /\ bot_pc = "clip_write"
          /\ clip_file' = [written |-> TRUE, start |-> clip_start, end |-> clip_end]

\* C20: clip_video_based_on_audio raises ValueError, without cutting or
\* writing a clip, whenever the audio duration is greater than or equal to
\* the video duration; otherwise, for every choice of start, the window it
\* cuts satisfies 0 <= start <= end <= video duration and end - start =
\* audio duration.
C20_ClipWindow == [](C20_State) /\ [][C20_Step]_vars

\* the latest possible start was chosen: the window ends with the video
C20_Witness ==
    /\ bot_pc = "clip_write"
    /\ clip_start > 0
    /\ clip_start = max_start(video_duration, audio_duration)
    /\ clip_end = video_duration

------------------------------------------------------------------------------
(* RedditStoryBot: claim C15.                                               *)

\* C15 (as claimed): in every interleaving of the updater thread and the
\* main thread, a thread that is inside an execute, a fetch or a commit on
\* the shared cursor or connection holds db_lock, so the two threads are
\* never inside a database operation at the same time.
C15_DbOpsUnderLock ==
    /\ \A t \in Threads : th_op[t] # "" => db_lock = t
    /\ ~(\A t \in Threads : th_op[t] # "")

====
